---- MODULE Spec2Model ----
(***************************************************************************)
(* Model of llmfit-desktop/ui/app.js: the model-fit table of the desktop   *)
(* UI.  The source file holds two variants of the page script:             *)
(*   variant "A" (lines 1-277): sortable, filterable table with a detail   *)
(*                panel, a refresh button and a selection;                 *)
(*   variant "B" (lines 279-369): a plain table with a search box and a    *)
(*                fit-level filter.                                        *)
(* A JavaScript string is a sequence of one-character strings, null is the *)
(* empty option <<>> and a non-null value v is the option <<v>>.           *)
(***************************************************************************)
EXTENDS Integers, Sequences, FiniteSets, TLC

VARIABLES
    variant,         \* which of the two page scripts runs: "A" or "B"
    initPc,          \* A: position of the DOMContentLoaded handler
    listeners,       \* A: setupEventListeners has run
    inflightSys,     \* A: refresh handlers awaiting get_system_info
    inflightModels,  \* A: refresh handlers awaiting get_model_fits
    allModels,       \* A: let allModels
    sortKey,         \* A: let sortKey
    sortAsc,         \* A: let sortAsc
    selectedModel,   \* A: let selectedModel (option of a string)
    search,          \* value of the #search input (both variants)
    filterFit,       \* value of #filter-fit (A) / #fit-filter (B)
    filterCategory,  \* A: value of #filter-category
    filterInstalled, \* A: checked state of #filter-installed
    thSorted,        \* A: the header cell carrying the sorted/asc/desc classes
    panel,           \* A: the hidden / visible classes of #detail-panel
    detailContent,   \* A: what #detail-content shows (option)
    tbody,           \* what the table body shows
    modelCount,      \* A: what #model-count shows (option)
    sysPanel,        \* the system information region
    allFits,         \* B: let allFits
    specsPending,    \* B: loadSpecs() has not settled
    fitsPending      \* B: loadModels() has not settled

vars == <<variant, initPc, listeners, inflightSys, inflightModels, allModels,
          sortKey, sortAsc, selectedModel, search, filterFit, filterCategory,
          filterInstalled, thSorted, panel, detailContent, tbody, modelCount,
          sysPanel, allFits, specsPending, fitsPending>>

-----------------------------------------------------------------------------
(* Bounds of the model *)

\* records in one get_model_fits response
MaxRecords == 2
\* refresh handlers that may be awaiting a response at once
MaxInflight == 1

-----------------------------------------------------------------------------
(* Strings *)

\* String.prototype.toLowerCase on one character
LowerChar(c) ==
    CASE c = "A" -> "a"
      [] c = "B" -> "b"
      [] c = "Q" -> "q"
      [] c = "X" -> "x"
      [] c = "Y" -> "y"
      [] OTHER -> c

\* String.prototype.toLowerCase
toLowerCase(s) == [i \in 1..Len(s) |-> LowerChar(s[i])]

\* String.prototype.includes
includes(s, sub) ==
    \E i \in 0..(Len(s) - Len(sub)) : SubSeq(s, i + 1, i + Len(sub)) = sub

\* Collation weight of a character: punctuation before letters, letters in
\* alphabetical order, upper case after lower case of the same letter.
CharRank(c) ==
    CASE c = "\"" -> 1
      [] c = "/" -> 2
      [] c = "a" -> 3
      [] c = "A" -> 4
      [] c = "b" -> 5
      [] c = "B" -> 6
      [] c = "q" -> 7
      [] c = "Q" -> 8
      [] c = "x" -> 9
      [] c = "X" -> 10
      [] c = "y" -> 11
      [] OTHER -> 12

RECURSIVE localeCompare(_, _)
\* String.prototype.localeCompare: negative, zero or positive
localeCompare(a, b) ==
    IF a = <<>> /\ b = <<>> THEN 0
    ELSE IF a = <<>> THEN -1
    ELSE IF b = <<>> THEN 1
    ELSE IF CharRank(Head(a)) < CharRank(Head(b)) THEN -1
    ELSE IF CharRank(Head(a)) > CharRank(Head(b)) THEN 1
    ELSE localeCompare(Tail(a), Tail(b))

RECURSIVE splitPop(_)
\* name.split('/').pop(): the part after the last '/'
splitPop(s) ==
    IF \E i \in 1..Len(s) : s[i] = "/"
    THEN splitPop(SubSeq(s, (CHOOSE i \in 1..Len(s) : s[i] = "/") + 1, Len(s)))
    ELSE s

\* row.dataset.name of a row written as data-name="${m.name}": the markup is
\* not escaped, so the attribute value ends at the first double quote.
datasetName(s) ==
    IF \E i \in 1..Len(s) : s[i] = "\""
    THEN SubSeq(s, 1, (CHOOSE i \in 1..Len(s) :
                          s[i] = "\"" /\ \A j \in 1..(i - 1) : s[j] # "\"") - 1)
    ELSE s

\* the elements of a sequence
Range(s) == {s[i] : i \in 1..Len(s)}

\* JavaScript truthiness of an optional string: null and '' are falsy
Truthy(opt) == opt # <<>> /\ opt[1] # <<>>

RECURSIVE escapeHtml(_)
\* escapeHtml(str): div.textContent = str; return div.innerHTML. The text
\* node is serialised with '&', '<' and '>' replaced by their entities; a
\* double quote is left as it is.
escapeHtml(s) ==
    IF s = <<>> THEN <<>>
    ELSE (CASE s[1] = "&" -> <<"&", "a", "m", "p", ";">>
            [] s[1] = "<" -> <<"&", "l", "t", ";">>
            [] s[1] = ">" -> <<"&", "g", "t", ";">>
            [] OTHER -> <<s[1]>>) \o escapeHtml(Tail(s))

-----------------------------------------------------------------------------
(* Numbers: a JavaScript number is the exact fraction n / d, d > 0 *)

Rat(n, d) == [n |-> n, d |-> d]

\* a / b for b > 0, a * b
RatDiv(a, b) == Rat(a.n * b.d, a.d * b.n)
RatMul(a, b) == Rat(a.n * b.n, a.d * b.d)

\* a <= b, a = b
RatLeq(a, b) == a.n * b.d <= b.n * a.d
RatEq(a, b) == a.n * b.d = b.n * a.d

\* Math.min(a, b), Math.max(a, b)
MathMin(a, b) == IF RatLeq(a, b) THEN a ELSE b
MathMax(a, b) == IF RatLeq(a, b) THEN b ELSE a

\* the number a record field holds when the backend sends t tenths
Tenths(t) == Rat(t, 10)

RECURSIVE digits(_)
\* the decimal digits of a natural number
digits(k) ==
    IF k < 10 THEN <<(<<"0", "1", "2", "3", "4", "5", "6", "7", "8", "9">>)[k + 1]>>
    ELSE digits(k \div 10) \o digits(k % 10)

\* x.toFixed(1): the nearest number of tenths, the larger one on a tie,
\* written with one decimal
toFixed1(x) ==
    LET k == (2 * 10 * x.n + x.d) \div (2 * x.d)
        m == IF k < 0 THEN -k ELSE k
    IN  (IF k < 0 THEN <<"-">> ELSE <<>>)
            \o digits(m \div 10) \o <<".">> \o digits(m % 10)

-----------------------------------------------------------------------------
(* Records the backend may return *)

\* a record: the fields the filters and the sort read, and the display
\* fields of the row and detail templates (text, the utilization percentage
\* and the four sub-scores), which start from plain values
ModelFit(n, p, s, f, c, i) ==
    [name |-> n, provider |-> p, score |-> s, fit_level |-> f,
     category |-> c, installed |-> i,
     params |-> <<"7", "B">>, best_quant |-> <<"Q", "4">>, run_mode |-> <<"g", "p", "u">>,
     use_case |-> <<"c">>, notes |-> <<>>,
     utilization_pct |-> Tenths(500),
     score_memory |-> Tenths(300), score_speed |-> Tenths(150),
     score_quality |-> Tenths(200), score_context |-> Tenths(0)]

R1 == ModelFit(<<"a", "/", "x">>, <<"Y">>, 80, "good", "chat", TRUE)
\* utilization 143.7 %
R2 == [ModelFit(<<"b", "/", "y">>, <<"X">>, 95, "perfect", "code", FALSE)
          EXCEPT !.utilization_pct = Tenths(1437)]
\* R1 as a later response reports it: same name, other values
R3 == ModelFit(<<"a", "/", "x">>, <<"Q">>, 95, "perfect", "chat", FALSE)
\* a name that holds a double quote and upper-case letters, display text
\* that holds markup characters
R4 == [ModelFit(<<"A", "/", "Y", "\"">>, <<"y">>, 80, "good", "code", FALSE)
          EXCEPT !.params = <<"<">>, !.best_quant = <<"&">>, !.run_mode = <<">">>,
                 !.use_case = <<"<">>, !.notes = << <<"&">> >>]

\* the backend's catalogue, in the order its responses list records
Catalogue == <<R1, R2, R3, R4>>

\* name is unique within a fetched record set
UniqueNames(rs) ==
    \A i, j \in 1..Len(rs) : rs[i].name = rs[j].name => i = j

\* a response: up to MaxRecords catalogue records, in catalogue order
RecordSets ==
    LET picks == {ix \in UNION {[1..n -> 1..Len(Catalogue)] : n \in 0..MaxRecords} :
                     \A i, j \in 1..Len(ix) : i < j => ix[i] < ix[j]}
        all == {[i \in 1..Len(ix) |-> Catalogue[ix[i]]] : ix \in picks}
    IN  {rs \in all : UniqueNames(rs)}

SearchTexts == {<<>>, <<"Y">>}
FitValues == {"all", "good"}
CategoryValues == {"all", "chat"}
SortKeys == {"name", "score", "installed"}

\* outcomes of invoke('get_model_fits')
FitsResponses ==
    {[ok |-> TRUE, models |-> rs] : rs \in RecordSets}
        \cup {[ok |-> FALSE, models |-> <<>>]}

\* outcomes of invoke('get_system_info')
InfoResponses == {[ok |-> TRUE], [ok |-> FALSE]}

-----------------------------------------------------------------------------
(* Variant A: filtering, sorting, rendering *)

\* the values getFilteredModels reads from the four filter controls
Controls(s, fit, cat, inst) ==
    [search |-> s, fit |-> fit, category |-> cat, installed |-> inst]

\* filterKeeps with the installed-only test left out
filterKeeps_IgnoresInstalled(m, f) ==
    LET srch == toLowerCase(f.search) IN
    IF /\ srch # <<>>
       /\ ~includes(toLowerCase(m.name), srch)
       /\ ~includes(toLowerCase(m.provider), srch) THEN FALSE
    ELSE IF f.fit # "all" /\ m.fit_level # f.fit THEN FALSE
    ELSE IF f.category # "all" /\ m.category # f.category THEN FALSE
    ELSE TRUE

\* the callback of allModels.filter in getFilteredModels
filterKeeps(m, f) ==
    LET srch == toLowerCase(f.search) IN
    IF /\ srch # <<>>
       /\ ~includes(toLowerCase(m.name), srch)
       /\ ~includes(toLowerCase(m.provider), srch) THEN FALSE
    ELSE IF f.fit # "all" /\ m.fit_level # f.fit THEN FALSE
    ELSE IF f.category # "all" /\ m.category # f.category THEN FALSE
    ELSE IF f.installed /\ ~m.installed THEN FALSE
    ELSE TRUE

getFilteredModels(models, f) == SelectSeq(models, LAMBDA m : filterKeeps(m, f))

\* typeof of the value a record holds under a sort key
typeOf(key) ==
    CASE key = "name" -> "string"
      [] key = "installed" -> "boolean"
      [] OTHER -> "number"

\* compareFn with the direction applied to strings only
compareFn_NumbersAlwaysDescending(a, b, key, asc) ==
    IF typeOf(key) = "string"
    THEN LET va == toLowerCase(a[key])
             vb == toLowerCase(b[key])
         IN  IF asc THEN localeCompare(va, vb) ELSE localeCompare(vb, va)
    ELSE LET va == IF typeOf(key) = "boolean" THEN (IF a[key] THEN 1 ELSE 0) ELSE a[key]
             vb == IF typeOf(key) = "boolean" THEN (IF b[key] THEN 1 ELSE 0) ELSE b[key]
         IN  vb - va

\* the comparator sortModels hands to Array.prototype.sort
compareFn(a, b, key, asc) ==
    IF typeOf(key) = "string"
    THEN LET va == toLowerCase(a[key])
             vb == toLowerCase(b[key])
         IN  IF asc THEN localeCompare(va, vb) ELSE localeCompare(vb, va)
    ELSE LET va == IF typeOf(key) = "boolean" THEN (IF a[key] THEN 1 ELSE 0) ELSE a[key]
             vb == IF typeOf(key) = "boolean" THEN (IF b[key] THEN 1 ELSE 0) ELSE b[key]
         IN  IF asc THEN va - vb ELSE vb - va

RECURSIVE insertStable(_, _, _, _)
\* Array.prototype.sort is stable: x goes behind every element that does not
\* compare greater than it
insertStable(x, sorted, key, asc) ==
    IF sorted = <<>> THEN <<x>>
    ELSE IF compareFn(Head(sorted), x, key, asc) > 0 THEN <<x>> \o sorted
    ELSE <<Head(sorted)>> \o insertStable(x, Tail(sorted), key, asc)

RECURSIVE sortModels(_, _, _)
\* [...models].sort(comparator): a new array, the argument is left alone
sortModels(models, key, asc) ==
    IF models = <<>> THEN <<>>
    ELSE insertStable(models[Len(models)],
                      sortModels(SubSeq(models, 1, Len(models) - 1), key, asc),
                      key, asc)

\* one <tr> of renderTable; dataName is the attribute as written in the markup
tableRow(m, sel) ==
    [dataName |-> m.name,
     selected |-> (sel = <<m.name>>),
     title |-> escapeHtml(splitPop(m.name)),
     provider |-> escapeHtml(m.provider),
     params |-> m.params,
     score |-> m.score,
     fit_level |-> m.fit_level,
     best_quant |-> m.best_quant,
     run_mode |-> m.run_mode,
     installed |-> m.installed]

\* renderRows with the count line counting every record as visible
renderRows_CountsAll(models, total, sel) ==
    [tbody |-> [kind |-> "rows",
                rows |-> [i \in 1..Len(models) |-> tableRow(models[i], sel)]],
     modelCount |-> <<[visible |-> total, total |-> total, unit |-> "models"]>>]

\* renderTable: the table body and the count line
\* `${filtered.length} of ${allModels.length} models`
renderRows(models, total, sel) ==
    [tbody |-> [kind |-> "rows",
                rows |-> [i \in 1..Len(models) |-> tableRow(models[i], sel)]],
     modelCount |-> <<[visible |-> Len(models), total |-> total, unit |-> "models"]>>]

\* renderTable: filter, sort, then write the rows and the count line
renderTable(models, f, key, asc, sel) ==
    renderRows(sortModels(getFilteredModels(models, f), key, asc), Len(models), sel)

\* scoreBar without the cap at 100
scoreBar_NoUpperClamp(label, value, cls) ==
    [label |-> label, text |-> toFixed1(value), cls |-> cls,
     width |-> MathMax(Rat(0, 1), RatMul(RatDiv(value, Rat(30, 1)), Rat(100, 1)))]

\* scoreBar(label, value, cls): the label, the value with one decimal and
\* the width of the fill in percent
scoreBar(label, value, cls) ==
    [label |-> label, text |-> toFixed1(value), cls |-> cls,
     width |-> MathMax(Rat(0, 1),
                       MathMin(Rat(100, 1),
                               RatMul(RatDiv(value, Rat(30, 1)), Rat(100, 1))))]

\* what showDetail writes into #detail-content: the text it inserts, the
\* memory-utilization bar and the four sub-score bars
detailOf(m) ==
    [title |-> escapeHtml(splitPop(m.name)),
     name |-> escapeHtml(m.name),
     provider |-> escapeHtml(m.provider),
     fit_level |-> m.fit_level,
     score |-> m.score,
     run_mode |-> m.run_mode,
     best_quant |-> m.best_quant,
     utilWidth |-> MathMin(m.utilization_pct, Rat(100, 1)),
     utilLabel |-> toFixed1(m.utilization_pct) \o <<"%">>,
     bars |-> <<scoreBar("Memory", m.score_memory, "memory"),
                scoreBar("Speed", m.score_speed, "speed"),
                scoreBar("Quality", m.score_quality, "quality"),
                scoreBar("Context", m.score_context, "context")>>,
     category |-> m.category,
     use_case |-> escapeHtml(m.use_case),
     notes |-> [k \in 1..Len(m.notes) |-> escapeHtml(m.notes[k])],
     installed |-> m.installed]

\* allModels.find(m => m.name === name): option of the first match
findModel(models, name) ==
    IF \E i \in 1..Len(models) : models[i].name = name
    THEN <<models[CHOOSE i \in 1..Len(models) :
                     /\ models[i].name = name
                     /\ \A j \in 1..(i - 1) : models[j].name # name]>>
    ELSE <<>>

\* the markup the page ships with, before any script has written to it
StaticTable == [kind |-> "static", rows |-> <<>>]
PanelHidden == [hidden |-> TRUE, visible |-> FALSE]

-----------------------------------------------------------------------------
(* Variant A: state and handlers *)

AVars == <<initPc, listeners, inflightSys, inflightModels, allModels, sortKey,
           sortAsc, selectedModel, filterCategory, filterInstalled, thSorted,
           panel, detailContent, modelCount>>
BVars == <<allFits, specsPending, fitsPending>>

\* the table body and the count line become what a render produced
Rendered(r) == tbody' = r.tbody /\ modelCount' = r.modelCount

\* renderTable() run at the end of a handler, on the state the handler leaves
Render ==
    Rendered(renderTable(allModels', Controls(search', filterFit', filterCategory',
                                              filterInstalled'),
                         sortKey', sortAsc', selectedModel'))

InitA ==
    /\ initPc = "sysinfo"
    /\ listeners = FALSE
    /\ inflightSys = 0
    /\ inflightModels = 0
    /\ allModels = <<>>
    /\ sortKey = "score"
    /\ sortAsc = FALSE
    /\ selectedModel = <<>>
    /\ search = <<>>
    /\ filterFit = "all"
    /\ filterCategory = "all"
    /\ filterInstalled = FALSE
    /\ thSorted = <<>>
    /\ panel = PanelHidden
    /\ detailContent = <<>>
    /\ tbody = StaticTable
    /\ modelCount = <<>>
    /\ sysPanel = "static"

\* loadSystemInfo: the try block on success, the catch block on failure
loadSystemInfo(res) ==
    sysPanel' = IF res.ok THEN "info" ELSE sysPanel

\* loadModels that empties the record set when the request fails
loadModels_ClearsOnFailure(res) ==
    /\ allModels' = res.models
    /\ UNCHANGED <<sortKey, sortAsc, selectedModel, search, filterFit,
                   filterCategory, filterInstalled>>
    /\ Render

\* loadModels putting the sort back to its default on a successful fetch
loadModels_ResetsSort(res) ==
    IF res.ok
    THEN /\ allModels' = res.models
         /\ sortKey' = "score" /\ sortAsc' = FALSE
         /\ UNCHANGED <<selectedModel, search, filterFit, filterCategory,
                        filterInstalled>>
         /\ Render
    ELSE UNCHANGED <<allModels, sortKey, sortAsc, selectedModel, search, filterFit,
                     filterCategory, filterInstalled, tbody, modelCount>>

\* loadModels: on success the record set is replaced and the table rendered,
\* on failure the error is logged
loadModels(res) ==
    IF res.ok
    THEN /\ allModels' = res.models
         /\ UNCHANGED <<sortKey, sortAsc, selectedModel, search, filterFit,
                        filterCategory, filterInstalled>>
         /\ Render
    ELSE UNCHANGED <<allModels, sortKey, sortAsc, selectedModel, search, filterFit,
                     filterCategory, filterInstalled, tbody, modelCount>>

\* DOMContentLoaded handler, first await
InitSystemInfo(res) ==
    /\ variant = "A" /\ initPc = "sysinfo"
    /\ loadSystemInfo(res)
    /\ initPc' = "models"
    /\ UNCHANGED <<variant, listeners, inflightSys, inflightModels, allModels,
                   sortKey, sortAsc, selectedModel, search, filterFit,
                   filterCategory, filterInstalled, thSorted, panel,
                   detailContent, tbody, modelCount>>
    /\ UNCHANGED BVars

\* DOMContentLoaded handler, second await and setupEventListeners
InitModels(res) ==
    /\ variant = "A" /\ initPc = "models"
    /\ loadModels(res)
    /\ listeners' = TRUE
    /\ initPc' = "ready"
    /\ UNCHANGED <<variant, inflightSys, inflightModels, thSorted, panel,
                   detailContent, sysPanel>>
    /\ UNCHANGED BVars

\* btn-refresh click while fewer than limit refresh handlers are running:
\* the handler starts and awaits get_system_info
RefreshClickWithin(limit) ==
    /\ variant = "A" /\ listeners
    /\ inflightSys + inflightModels < limit
    /\ inflightSys' = inflightSys + 1
    /\ UNCHANGED <<variant, initPc, listeners, inflightModels, allModels, sortKey,
                   sortAsc, selectedModel, search, filterFit, filterCategory,
                   filterInstalled, thSorted, panel, detailContent, tbody,
                   modelCount, sysPanel>>
    /\ UNCHANGED BVars

\* btn-refresh click
RefreshClick == RefreshClickWithin(MaxInflight)

\* a refresh handler's get_system_info settles; it goes on to loadModels
RefreshSystemInfo(res) ==
    /\ variant = "A" /\ inflightSys > 0
    /\ loadSystemInfo(res)
    /\ inflightSys' = inflightSys - 1
    /\ inflightModels' = inflightModels + 1
    /\ UNCHANGED <<variant, initPc, listeners, allModels, sortKey, sortAsc,
                   selectedModel, search, filterFit, filterCategory,
                   filterInstalled, thSorted, panel, detailContent, tbody,
                   modelCount>>
    /\ UNCHANGED BVars

\* a refresh that drops its response while a later request is outstanding
RefreshModels_DropsSuperseded(res) ==
    /\ variant = "A" /\ inflightModels > 0
    /\ IF inflightModels = 1
       THEN loadModels(res)
       ELSE UNCHANGED <<allModels, sortKey, sortAsc, selectedModel, search, filterFit,
                        filterCategory, filterInstalled, tbody, modelCount>>
    /\ inflightModels' = inflightModels - 1
    /\ UNCHANGED <<variant, initPc, listeners, inflightSys, thSorted, panel,
                   detailContent, sysPanel>>
    /\ UNCHANGED BVars

\* a refresh handler's get_model_fits settles
RefreshModels(res) ==
    /\ variant = "A" /\ inflightModels > 0
    /\ loadModels(res)
    /\ inflightModels' = inflightModels - 1
    /\ UNCHANGED <<variant, initPc, listeners, inflightSys, thSorted, panel,
                   detailContent, sysPanel>>
    /\ UNCHANGED BVars

\* a filter listener that drops a selection the new filters exclude
onFilterChange_ClearsFilteredOut ==
    /\ UNCHANGED <<allModels, sortKey, sortAsc, detailContent>>
    /\ IF /\ listeners
          /\ selectedModel # <<>>
          /\ \A m \in Range(getFilteredModels(allModels,
                    Controls(search', filterFit', filterCategory', filterInstalled'))) :
                 <<m.name>> # selectedModel
       THEN selectedModel' = <<>> /\ panel' = PanelHidden
       ELSE UNCHANGED <<selectedModel, panel>>
    /\ IF listeners THEN Render ELSE UNCHANGED <<tbody, modelCount>>

\* renderTable as the listener of a filter control: it runs once
\* setupEventListeners has installed it
onFilterChange ==
    /\ UNCHANGED <<allModels, sortKey, sortAsc, selectedModel, panel, detailContent>>
    /\ IF listeners THEN Render ELSE UNCHANGED <<tbody, modelCount>>

FilterFrame ==
    /\ UNCHANGED <<variant, initPc, listeners, inflightSys, inflightModels,
                   thSorted, sysPanel>>
    /\ UNCHANGED BVars

\* the user edits #search
SearchInput(s) ==
    /\ variant = "A" /\ s # search
    /\ search' = s
    /\ UNCHANGED <<filterFit, filterCategory, filterInstalled>>
    /\ onFilterChange
    /\ FilterFrame

\* the user picks a value of #filter-fit
FitChange(fit) ==
    /\ variant = "A" /\ fit # filterFit
    /\ filterFit' = fit
    /\ UNCHANGED <<search, filterCategory, filterInstalled>>
    /\ onFilterChange
    /\ FilterFrame

\* the user picks a value of #filter-category
CategoryChange(cat) ==
    /\ variant = "A" /\ cat # filterCategory
    /\ filterCategory' = cat
    /\ UNCHANGED <<search, filterFit, filterInstalled>>
    /\ onFilterChange
    /\ FilterFrame

\* the user toggles #filter-installed
InstalledChange ==
    /\ variant = "A"
    /\ filterInstalled' = ~filterInstalled
    /\ UNCHANGED <<search, filterFit, filterCategory>>
    /\ onFilterChange
    /\ FilterFrame

\* a click handler that keeps the direction when the key changes
nextSortAsc_KeepsDirection(key) == IF sortKey = key THEN ~sortAsc ELSE sortAsc

\* th[data-sort] click: the direction the handler leaves in sortAsc
nextSortAsc(key) == IF sortKey = key THEN ~sortAsc ELSE FALSE

\* the click handler sorting the stored array itself
SortClick_SortsInPlace(key) ==
    /\ variant = "A" /\ listeners
    /\ sortAsc' = nextSortAsc(key)
    /\ sortKey' = key
    /\ thSorted' = <<[key |-> key, dir |-> IF sortAsc' THEN "asc" ELSE "desc"]>>
    /\ allModels' = sortModels(allModels, sortKey', sortAsc')
    /\ UNCHANGED <<selectedModel, search, filterFit, filterCategory,
                   filterInstalled>>
    /\ Render
    /\ UNCHANGED <<variant, initPc, listeners, inflightSys, inflightModels,
                   panel, detailContent, sysPanel>>
    /\ UNCHANGED BVars

\* th[data-sort] click handler
SortClick(key) ==
    /\ variant = "A" /\ listeners
    /\ sortAsc' = nextSortAsc(key)
    /\ sortKey' = key
    /\ thSorted' = <<[key |-> key, dir |-> IF sortAsc' THEN "asc" ELSE "desc"]>>
    /\ UNCHANGED <<allModels, selectedModel, search, filterFit, filterCategory,
                   filterInstalled>>
    /\ Render
    /\ UNCHANGED <<variant, initPc, listeners, inflightSys, inflightModels,
                   panel, detailContent, sysPanel>>
    /\ UNCHANGED BVars

\* showDetail(name)
showDetail(name) ==
    /\ selectedModel' = <<name>>
    /\ UNCHANGED <<allModels, sortKey, sortAsc, search, filterFit, filterCategory,
                   filterInstalled>>
    /\ IF findModel(allModels, name) = <<>>
       THEN UNCHANGED <<detailContent, panel, tbody, modelCount>>
       ELSE /\ detailContent' = <<detailOf(findModel(allModels, name)[1])>>
            /\ panel' = [hidden |-> FALSE, visible |-> TRUE]
            /\ Render

\* click on the i-th rendered row: showDetail(row.dataset.name)
RowClick(i) ==
    /\ variant = "A" /\ tbody.kind = "rows" /\ i \in 1..Len(tbody.rows)
    /\ showDetail(datasetName(tbody.rows[i].dataName))
    /\ UNCHANGED <<variant, initPc, listeners, inflightSys, inflightModels,
                   thSorted, sysPanel>>
    /\ UNCHANGED BVars

\* the part of the page the two close handlers write
View == [selectedModel |-> selectedModel, panel |-> panel, tbody |-> tbody,
         modelCount |-> modelCount]

\* renderTable() with a given selection, everything else as it is now
renderNow(sel) ==
    renderTable(allModels, Controls(search, filterFit, filterCategory, filterInstalled),
                sortKey, sortAsc, sel)

\* detail-close click handler
detailClose(v) ==
    [selectedModel |-> <<>>,
     panel |-> [hidden |-> TRUE, visible |-> FALSE],
     tbody |-> renderNow(<<>>).tbody,
     modelCount |-> renderNow(<<>>).modelCount]

\* keydown handler for the Escape key
keydownEscape(v) ==
    IF Truthy(v.selectedModel)
    THEN [selectedModel |-> <<>>,
          panel |-> [v.panel EXCEPT !.visible = FALSE],
          tbody |-> renderNow(<<>>).tbody,
          modelCount |-> renderNow(<<>>).modelCount]
    ELSE v

SetView(v) ==
    /\ selectedModel' = v.selectedModel
    /\ panel' = v.panel
    /\ tbody' = v.tbody
    /\ modelCount' = v.modelCount

DetailCloseClick ==
    /\ variant = "A" /\ listeners
    /\ SetView(detailClose(View))
    /\ UNCHANGED <<variant, initPc, listeners, inflightSys, inflightModels,
                   allModels, sortKey, sortAsc, search, filterFit, filterCategory,
                   filterInstalled, thSorted, detailContent, sysPanel>>
    /\ UNCHANGED BVars

EscapeKey ==
    /\ variant = "A" /\ listeners
    /\ SetView(keydownEscape(View))
    /\ UNCHANGED <<variant, initPc, listeners, inflightSys, inflightModels,
                   allModels, sortKey, sortAsc, search, filterFit, filterCategory,
                   filterInstalled, thSorted, detailContent, sysPanel>>
    /\ UNCHANGED BVars

NextA ==
    \/ \E res \in InfoResponses : InitSystemInfo(res)
    \/ \E res \in FitsResponses : InitModels(res)
    \/ RefreshClick
    \/ \E res \in InfoResponses : RefreshSystemInfo(res)
    \/ \E res \in FitsResponses : RefreshModels(res)
    \/ \E s \in SearchTexts : SearchInput(s)
    \/ \E fit \in FitValues : FitChange(fit)
    \/ \E cat \in CategoryValues : CategoryChange(cat)
    \/ InstalledChange
    \/ \E key \in SortKeys : SortClick(key)
    \/ \E i \in 1..MaxRecords : RowClick(i)
    \/ DetailCloseClick
    \/ EscapeKey

-----------------------------------------------------------------------------
(* Variant B *)

\* outcomes of invoke('get_model_fits') in variant B: a record set, null
\* (the stand-in invoke when Tauri is absent) or a rejection
FitsResponsesB ==
    {[ok |-> TRUE, value |-> <<rs>>] : rs \in RecordSets}
        \cup {[ok |-> TRUE, value |-> <<>>], [ok |-> FALSE, value |-> <<>>]}

\* outcomes of invoke('get_system_specs')
SpecsResponsesB == {"specs", "null", "rejected"}

\* one <tr> of renderModels
fitRow(f) ==
    [name |-> f.name, quant |-> f.best_quant, fit_level |-> f.fit_level,
     run_mode |-> f.run_mode, score |-> f.score, use_case |-> f.use_case]

\* renderModels(fits)
renderModels(fits) ==
    IF Len(fits) = 0
    THEN [kind |-> "none", rows |-> <<>>]
    ELSE [kind |-> "rows", rows |-> [i \in 1..Len(fits) |-> fitRow(fits[i])]]

\* searchFits without lower-casing the record's name
searchFits_CaseSensitive(fits, s) ==
    LET srch == toLowerCase(s) IN
    IF srch # <<>>
    THEN SelectSeq(fits, LAMBDA f : includes(f.name, srch))
    ELSE fits

\* the search step of applyFilters
searchFits(fits, s) ==
    LET srch == toLowerCase(s) IN
    IF srch # <<>>
    THEN SelectSeq(fits, LAMBDA f : includes(toLowerCase(f.name), srch))
    ELSE fits

\* applyFilters: what it hands to renderModels
applyFilters(fits, s, fit) ==
    LET filtered == searchFits(fits, s) IN
    renderModels(IF fit # "all"
                 THEN SelectSeq(filtered, LAMBDA f : f.fit_level = fit)
                 ELSE filtered)

InitB ==
    /\ allFits = <<>>
    /\ search = <<>>
    /\ filterFit = "all"
    /\ tbody = StaticTable
    /\ sysPanel = "static"

\* loadSpecs() settles
LoadSpecsB(res) ==
    /\ variant = "B" /\ specsPending
    /\ specsPending' = FALSE
    /\ sysPanel' = CASE res = "specs" -> "specs"
                     [] res = "null" -> sysPanel
                     [] OTHER -> "error"
    /\ UNCHANGED <<variant, search, filterFit, tbody, allFits, fitsPending>>
    /\ UNCHANGED AVars

\* loadModels() of variant B settles
LoadModelsB(res) ==
    /\ variant = "B" /\ fitsPending
    /\ fitsPending' = FALSE
    /\ IF res.ok
       THEN /\ allFits' = (IF res.value = <<>> THEN <<>> ELSE res.value[1])
            /\ tbody' = applyFilters(allFits', search, filterFit)
       ELSE /\ allFits' = allFits
            /\ tbody' = [kind |-> "error", rows |-> <<>>]
    /\ UNCHANGED <<variant, search, filterFit, sysPanel, specsPending>>
    /\ UNCHANGED AVars

\* input listener of #search in variant B: applyFilters
SearchInputB(s) ==
    /\ variant = "B" /\ s # search
    /\ search' = s
    /\ tbody' = applyFilters(allFits, search', filterFit)
    /\ UNCHANGED <<variant, filterFit, sysPanel, allFits, specsPending, fitsPending>>
    /\ UNCHANGED AVars

\* change listener of #fit-filter in variant B: applyFilters
FitChangeB(fit) ==
    /\ variant = "B" /\ fit # filterFit
    /\ filterFit' = fit
    /\ tbody' = applyFilters(allFits, search, filterFit')
    /\ UNCHANGED <<variant, search, sysPanel, allFits, specsPending, fitsPending>>
    /\ UNCHANGED AVars

NextB ==
    \/ \E res \in SpecsResponsesB : LoadSpecsB(res)
    \/ \E res \in FitsResponsesB : LoadModelsB(res)
    \/ \E s \in SearchTexts : SearchInputB(s)
    \/ \E fit \in FitValues : FitChangeB(fit)

-----------------------------------------------------------------------------
(* The page *)

Init ==
    /\ variant \in {"A", "B"}
    /\ IF variant = "A"
       THEN /\ InitA
            /\ allFits = <<>> /\ specsPending = FALSE /\ fitsPending = FALSE
       ELSE /\ InitB
            /\ specsPending = TRUE /\ fitsPending = TRUE
            /\ initPc = "none" /\ listeners = FALSE
            /\ inflightSys = 0 /\ inflightModels = 0
            /\ allModels = <<>> /\ sortKey = "score" /\ sortAsc = FALSE
            /\ selectedModel = <<>> /\ filterCategory = "all"
            /\ filterInstalled = FALSE /\ thSorted = <<>>
            /\ panel = PanelHidden /\ detailContent = <<>> /\ modelCount = <<>>

Next == NextA \/ NextB

Spec == Init /\ [][Next]_vars

-----------------------------------------------------------------------------
(* Vocabulary of the properties *)

\* the filter controls as they are now
ControlsNow == Controls(search, filterFit, filterCategory, filterInstalled)

\* a rendered row of variant A carries record m
Shown(m) == \E i \in 1..Len(tbody.rows) : tbody.rows[i].dataName = m.name

\* the record a selection key resolves to in the unfiltered set, as an option
Resolved == IF selectedModel = <<>> THEN <<>> ELSE findModel(allModels, selectedModel[1])

\* the search text matches one field of a record
Matches(field, s) == includes(toLowerCase(field), toLowerCase(s))

\* the value a row shows for a sortable column
RowValue(row, key) ==
    CASE key = "name" -> toLowerCase(row.dataName)
      [] key = "installed" -> (IF row.installed THEN 1 ELSE 0)
      [] OTHER -> row[key]

\* v comes no later than w in ascending order of a column
ValueLeq(v, w, key) == IF key = "name" THEN localeCompare(v, w) <= 0 ELSE v <= w

\* the rows are in descending order of a column
Descending(rows, key) ==
    \A i, j \in 1..Len(rows) :
        i < j => ValueLeq(RowValue(rows[j], key), RowValue(rows[i], key), key)

\* the rows are in ascending order of a column
Ascending(rows, key) ==
    \A i, j \in 1..Len(rows) :
        i < j => ValueLeq(RowValue(rows[i], key), RowValue(rows[j], key), key)

\* the place of the row of record name n
RowIndex(rows, n) == CHOOSE i \in 1..Len(rows) : rows[i].dataName = n

\* a get_model_fits request of variant A fails in this step
ModelsFetchFails ==
    \E res \in FitsResponses : ~res.ok /\ (InitModels(res) \/ RefreshModels(res))

\* a get_system_info request of variant A fails in this step
InfoFetchFails ==
    \E res \in InfoResponses :
        ~res.ok /\ (InitSystemInfo(res) \/ RefreshSystemInfo(res))

\* a filter control changes or a sort header is clicked in this step
FilterOrSortStep ==
    \/ \E s \in SearchTexts : SearchInput(s)
    \/ \E fit \in FitValues : FitChange(fit)
    \/ \E cat \in CategoryValues : CategoryChange(cat)
    \/ InstalledChange
    \/ \E key \in SortKeys : SortClick(key)

-----------------------------------------------------------------------------
(* C1: when a refresh resolves successfully with a record set that holds   *)
(* no record named by the current selection, the selection becomes unset   *)
(* and the detail panel is hidden.                                         *)
C1_StaleSelectionClears ==
    [][(/\ \E res \in FitsResponses : res.ok /\ RefreshModels(res)
        /\ selectedModel # <<>>
        /\ findModel(allModels', selectedModel[1]) = <<>>)
       => (selectedModel' = <<>> /\ panel'.hidden /\ ~panel'.visible)]_vars

(* C2: a click on column c flips sortAscending and keeps sortKey when      *)
(* sortKey = c; otherwise it sets sortKey = c and sortAscending = false,   *)
(* and the table it renders is in descending order of c whatever the       *)
(* direction was before.                                                   *)
C2_SortClickTransition ==
    [][\A c \in SortKeys :
          SortClick(c) =>
              /\ sortKey' = c
              /\ sortKey = c => sortAsc' = ~sortAsc
              /\ sortKey # c =>
                     /\ sortAsc' = FALSE
                     /\ tbody'.kind = "rows"
                     /\ Descending(tbody'.rows, c)]_vars

\* the name column was clicked while another column was the key, and the two
\* rows shown are in strictly descending order of name
C2_Witness ==
    /\ sortKey = "name" /\ ~sortAsc
    /\ thSorted = <<[key |-> "name", dir |-> "desc"]>>
    /\ Len(tbody.rows) = 2
    /\ localeCompare(toLowerCase(tbody.rows[1].dataName),
                     toLowerCase(tbody.rows[2].dataName)) > 0

(* C3: a record of the record set is among the rendered rows iff it        *)
(* satisfies every active filter on its own: search text empty or a        *)
(* substring of the lower-cased name or provider, fit-level 'all' or equal *)
(* to the record's, category 'all' or equal to the record's, installed-    *)
(* only unset or the record installed; and no record is shown twice.       *)
C3_FilterConjunction ==
    (variant = "A" /\ tbody.kind = "rows") =>
        /\ \A i \in 1..Len(allModels) :
              LET m == allModels[i] IN
              Shown(m) <=>
                  /\ (search = <<>> \/ Matches(m.name, search)
                                    \/ Matches(m.provider, search))
                  /\ (filterFit = "all" \/ m.fit_level = filterFit)
                  /\ (filterCategory = "all" \/ m.category = filterCategory)
                  /\ (~filterInstalled \/ m.installed)
        /\ \A i, j \in 1..Len(tbody.rows) :
              tbody.rows[i].dataName = tbody.rows[j].dataName => i = j
        /\ \A i \in 1..Len(tbody.rows) :
              \E k \in 1..Len(allModels) : allModels[k].name = tbody.rows[i].dataName

\* all four filters are active; they keep one of two records
C3_Witness ==
    /\ variant = "A" /\ tbody.kind = "rows"
    /\ search # <<>> /\ filterFit # "all" /\ filterCategory # "all" /\ filterInstalled
    /\ Len(allModels) = 2 /\ Len(tbody.rows) = 1

(* C4 as claimed: in both variants a record passes a non-empty search iff  *)
(* the lower-cased text is a substring of its lower-cased name or of its   *)
(* lower-cased provider; an empty search passes every record.              *)
C4_SearchNameOrProviderEverywhere ==
    /\ (variant = "A" /\ tbody.kind = "rows") =>
          \A i \in 1..Len(allModels) :
              LET m == allModels[i] IN
              filterKeeps(m, [ControlsNow EXCEPT !.search = <<>>]) =>
                  (Shown(m) <=> (search = <<>> \/ Matches(m.name, search)
                                               \/ Matches(m.provider, search)))
    /\ (variant = "B" /\ tbody.kind \in {"rows", "none"}) =>
          \A i \in 1..Len(allFits) :
              LET f == allFits[i] IN
              (filterFit = "all" \/ f.fit_level = filterFit) =>
                  ((\E k \in 1..Len(tbody.rows) : tbody.rows[k].name = f.name)
                      <=> (search = <<>> \/ Matches(f.name, search)
                                         \/ Matches(f.provider, search)))

(* C4 as amended: in variant A a record passes a non-empty search iff the  *)
(* lower-cased text is a substring of its lower-cased name or provider; in *)
(* variant B iff it is a substring of its lower-cased name; an empty       *)
(* search passes every record in both.                                     *)
C4_SearchPredicate ==
    /\ (variant = "A" /\ tbody.kind = "rows") =>
          \A i \in 1..Len(allModels) :
              LET m == allModels[i] IN
              filterKeeps(m, [ControlsNow EXCEPT !.search = <<>>]) =>
                  (Shown(m) <=> (search = <<>> \/ Matches(m.name, search)
                                               \/ Matches(m.provider, search)))
    /\ (variant = "B" /\ tbody.kind \in {"rows", "none"}) =>
          \A i \in 1..Len(allFits) :
              LET f == allFits[i] IN
              (filterFit = "all" \/ f.fit_level = filterFit) =>
                  ((\E k \in 1..Len(tbody.rows) : tbody.rows[k].name = f.name)
                      <=> (search = <<>> \/ Matches(f.name, search)))

\* variant B, search text set: a record whose provider alone matches is left
\* out, one whose name matches only after lower-casing is shown
C4_Witness ==
    /\ variant = "B" /\ search # <<>> /\ filterFit = "all"
    /\ allFits = <<R1, R4>>
    /\ tbody.kind = "rows" /\ Len(tbody.rows) = 1
    /\ tbody.rows[1].name = R4.name

(* C5: the rendered rows are the filtered records, each once, in the order *)
(* of the sort column: non-increasing when sortAscending is false, non-    *)
(* decreasing when true, booleans as 1/0 and strings lower-cased; and      *)
(* sorting the filtered records by score descending and ascending puts     *)
(* every pair of records with different scores in opposite orders.         *)
C5_SortOrder ==
    (variant = "A" /\ tbody.kind = "rows") =>
        LET filtered == getFilteredModels(allModels, ControlsNow)
            desc == sortModels(filtered, "score", FALSE)
            asc == sortModels(filtered, "score", TRUE)
            Pos(seq, m) == CHOOSE i \in 1..Len(seq) : seq[i] = m
        IN  /\ Len(tbody.rows) = Len(filtered)
            /\ \A m \in Range(filtered) :
                  \E i \in 1..Len(tbody.rows) :
                      /\ tbody.rows[i].dataName = m.name
                      /\ tbody.rows[i].score = m.score
                      /\ tbody.rows[i].installed = m.installed
            /\ IF sortAsc THEN Ascending(tbody.rows, sortKey)
                          ELSE Descending(tbody.rows, sortKey)
            /\ Range(desc) = Range(filtered) /\ Range(asc) = Range(filtered)
            /\ Len(desc) = Len(filtered) /\ Len(asc) = Len(filtered)
            /\ \A m, n \in Range(filtered) :
                  (m.score # n.score) =>
                      ((Pos(desc, m) < Pos(desc, n)) <=> (Pos(asc, n) < Pos(asc, m)))
            /\ \A m, n \in Range(filtered) :
                  m.score > n.score => Pos(desc, m) < Pos(desc, n)

\* the score header was clicked into ascending order and two records with
\* different scores are shown, lower score first
C5_Witness ==
    /\ variant = "A" /\ tbody.kind = "rows"
    /\ sortKey = "score" /\ sortAsc
    /\ thSorted = <<[key |-> "score", dir |-> "asc"]>>
    /\ Len(tbody.rows) = 2
    /\ tbody.rows[1].score < tbody.rows[2].score

(* C6: whenever a selection exists and resolves to a record of the         *)
(* unfiltered record set, the detail panel is shown and rendered from that *)
(* record as it is in the current record set, also after a refresh that    *)
(* replaced the record by one of the same name with other values.          *)
C6_DetailShowsCurrentRecord ==
    (variant = "A" /\ Resolved # <<>>) =>
        (panel.visible /\ detailContent = <<detailOf(Resolved[1])>>)

(* C7: while a record is selected and its detail is shown, a change of the *)
(* search text, the fit-level, category or installed-only filter, or a     *)
(* sort-header click leaves the selection, the panel's visibility and the  *)
(* detail content as they are, also when the record is no longer among the *)
(* visible rows.                                                           *)
C7_SelectionSurvivesFiltering ==
    [][(/\ selectedModel # <<>>
        /\ <<selectedModel, panel, detailContent>>' # <<selectedModel, panel, detailContent>>)
          => ~FilterOrSortStep]_vars

\* R2 is selected and its detail is shown while the installed-only filter
\* keeps its row out of the table
C7_Witness ==
    /\ variant = "A" /\ selectedModel = <<R2.name>>
    /\ panel.visible /\ ~panel.hidden
    /\ detailContent = <<detailOf(R2)>>
    /\ R2 \in Range(allModels)
    /\ filterInstalled
    /\ tbody.kind = "rows" /\ ~Shown(R2)

(* C8: whenever a get_model_fits request fails the table shows an explicit *)
(* 'error loading' state, which differs from what it shows while loading   *)
(* and from what it shows for a successful empty record set.               *)
C8_FetchFailureShown ==
    [][(ModelsFetchFails \/ (\E res \in FitsResponsesB : ~res.ok /\ LoadModelsB(res)))
          => /\ tbody'.kind = "error"
             /\ tbody' # StaticTable
             /\ tbody' # renderTable(<<>>, ControlsNow, sortKey, sortAsc, <<>>).tbody
             /\ tbody' # renderModels(<<>>)]_vars

(* C9: a failed get_system_info or get_model_fits request, at initial load *)
(* or on refresh, leaves the loaded record set unchanged; once the initial *)
(* load has settled, whatever its outcome, the listeners of the user       *)
(* events are installed (every handler runs whenever they are); and a      *)
(* get_model_fits request of a refresh that succeeds replaces the record   *)
(* set with its response.                                                  *)
C9_RecoveryAfterFailedFetch ==
    /\ [][allModels' # allModels => ~(ModelsFetchFails \/ InfoFetchFails)]_vars
    /\ [][(initPc' = "ready" /\ ~listeners') =>
             ~(ModelsFetchFails \/ InfoFetchFails)]_vars
    /\ []((variant = "A" /\ initPc = "ready") => listeners)
    /\ [][\A res \in FitsResponses :
             (res.ok /\ allModels' # res.models) => ~RefreshModels(res)]_vars

\* both initial requests failed (nothing was ever rendered), the page took
\* the refresh click all the same and its get_model_fits request is pending
C9_Witness ==
    /\ variant = "A" /\ listeners
    /\ sysPanel = "static" /\ tbody.kind = "static"
    /\ inflightModels = 1

\* the part of the state a close action is claimed to leave alone
CloseView(v) == [selectedModel |-> v.selectedModel, panel |-> v.panel,
                 rows |-> v.tbody.rows]

\* a close action: the close control or the Escape key
closeAction(h, v) == IF h = "close" THEN detailClose(v) ELSE keydownEscape(v)

(* C10: a second close action (close control or Escape key) right after a  *)
(* close action leaves selection, panel visibility and rendered rows as    *)
(* the first left them, and a close action in the NoSelection state        *)
(* changes none of them.                                                   *)
C10_CloseIdempotent ==
    (variant = "A" /\ listeners) =>
        \A h1, h2 \in {"close", "escape"} :
            /\ CloseView(closeAction(h2, closeAction(h1, View)))
                   = CloseView(closeAction(h1, View))
            /\ selectedModel = <<>> => CloseView(closeAction(h1, View)) = CloseView(View)

-----------------------------------------------------------------------------
\* a record passes the four filters as the controls are now
PassesFilters(m) ==
    /\ (search = <<>> \/ Matches(m.name, search) \/ Matches(m.provider, search))
    /\ (filterFit = "all" \/ m.fit_level = filterFit)
    /\ (filterCategory = "all" \/ m.category = filterCategory)
    /\ (~filterInstalled \/ m.installed)

\* the number of loaded records that pass the filters
VisibleCount == Cardinality({i \in 1..Len(allModels) : PassesFilters(allModels[i])})

\* the names of the rendered rows, in order
RowNames == [i \in 1..Len(tbody.rows) |-> tbody.rows[i].dataName]

\* the count line reads '{visible} of {total} <unit>' with the right numbers
CountLineReads(unit) ==
    (variant = "A" /\ tbody.kind = "rows") =>
        /\ modelCount = <<[visible |-> VisibleCount, total |-> Len(allModels),
                           unit |-> unit]>>
        /\ modelCount[1].visible <= modelCount[1].total

\* records a/x and b/y: default view and installed-only view
EndToEndScenario ==
    (/\ variant = "A" /\ tbody.kind = "rows" /\ allModels = <<R1, R2>>
     /\ search = <<>> /\ filterFit = "all" /\ filterCategory = "all"
     /\ sortKey = "score" /\ ~sortAsc) =>
        IF filterInstalled
        THEN /\ RowNames = <<R1.name>>
             /\ modelCount[1].visible = 1 /\ modelCount[1].total = 2
        ELSE RowNames = <<R2.name, R1.name>>

(* C11 as stated: after every render the count line reads '{visible} of    *)
(* {total} records', visible being the number of records that pass the     *)
(* filters and total the size of the record set; a/x and b/y show as b/y,  *)
(* a/x by default and as the single row a/x, '1 of 2', when installed-only *)
(* is set.                                                                 *)
C11_CountReadsRecords == CountLineReads("records") /\ EndToEndScenario

(* C11: the same, the count line reading '{visible} of {total} models',    *)
(* as renderTable writes it.                                               *)
C11_CountSummary == CountLineReads("models") /\ EndToEndScenario

\* a/x and b/y are loaded, installed-only is set: one row, '1 of 2 models'
C11_Witness ==
    /\ variant = "A" /\ tbody.kind = "rows" /\ allModels = <<R1, R2>>
    /\ search = <<>> /\ filterFit = "all" /\ filterCategory = "all"
    /\ filterInstalled /\ sortKey = "score" /\ ~sortAsc
    /\ RowNames = <<R1.name>>
    /\ modelCount = <<[visible |-> 1, total |-> 2, unit |-> "models"]>>

-----------------------------------------------------------------------------
\* a step of a refresh: the click, or one of its two requests settling
RefreshStep ==
    \/ RefreshClick
    \/ \E res \in InfoResponses : RefreshSystemInfo(res)
    \/ \E res \in FitsResponses : RefreshModels(res)

\* sort key, sort direction and the four filter values
ViewStateNow == <<sortKey, sortAsc, search, filterFit, filterCategory, filterInstalled>>

(* C12: no step of a refresh (the click, get_system_info settling,         *)
(* get_model_fits settling, with success or failure) changes sortKey,      *)
(* sortAsc or any of the four filter values.                               *)
C12_RefreshPreservesView ==
    [][ViewStateNow' # ViewStateNow => ~RefreshStep]_vars

\* a refresh replaced the records (the shown detail is of a record that is
\* gone) while the view was sorted by name ascending and filtered
C12_Witness ==
    /\ variant = "A" /\ allModels = <<R2>>
    /\ detailContent = <<detailOf(R1)>> /\ panel.visible
    /\ sortKey = "name" /\ sortAsc
    /\ search = <<"Y">> /\ filterFit = "good" /\ filterCategory = "chat"
    /\ filterInstalled
    /\ tbody.kind = "rows"

-----------------------------------------------------------------------------
(* The detail panel over a range of numeric field values: the same page,  *)
(* loaded with one record whose utilization or sub-scores vary.            *)

\* how far, in tenths, the utilization values go beyond 0 % and 100 %
UtilMargin == 20
\* how far, in tenths, the sub-score values go beyond 0 and 30
ScoreMargin == 10

UtilValues == (0 - UtilMargin)..(1000 + UtilMargin)
ScoreValues == (0 - ScoreMargin)..(300 + ScoreMargin)

\* records a response may hold: R1 with another utilization, R1 with other
\* sub-scores, and R2 (utilization 143.7 %)
DetailInputs ==
    {[R1 EXCEPT !.utilization_pct = Tenths(u)] : u \in UtilValues}
        \cup {[R1 EXCEPT !.score_memory = Tenths(v), !.score_speed = Tenths(300 - v),
                         !.score_quality = Tenths(v \div 2),
                         !.score_context = Tenths(2 * v)] : v \in ScoreValues}
        \cup {R2}

DetailResponses == {[ok |-> TRUE, models |-> <<m>>] : m \in DetailInputs}

InitDetail ==
    /\ variant = "A" /\ InitA
    /\ allFits = <<>> /\ specsPending = FALSE /\ fitsPending = FALSE

NextDetail ==
    \/ \E res \in InfoResponses : InitSystemInfo(res)
    \/ \E res \in DetailResponses : InitModels(res)
    \/ \E i \in 1..1 : RowClick(i)
    \/ DetailCloseClick

SpecDetail == InitDetail /\ [][NextDetail]_vars

\* the record whose detail is shown
ShownRecord == allModels[1]

\* the detail of the loaded record is in the panel
DetailShown ==
    /\ variant = "A" /\ Len(allModels) = 1 /\ panel.visible
    /\ detailContent = <<detailOf(ShownRecord)>>

RECURSIVE parseNat(_)
\* the natural number a sequence of decimal digits denotes
parseNat(ds) ==
    IF ds = <<>> THEN 0
    ELSE 10 * parseNat(SubSeq(ds, 1, Len(ds) - 1))
           + (CHOOSE k \in 0..9 : digits(k) = <<ds[Len(ds)]>>)

\* the number a text of the form [-]ddd.d denotes
parseDecimal(text) ==
    LET neg == text # <<>> /\ text[1] = "-"
        body == IF neg THEN Tail(text) ELSE text
        dot == CHOOSE i \in 1..Len(body) : body[i] = "."
        tenths == 10 * parseNat(SubSeq(body, 1, dot - 1))
                     + parseNat(SubSeq(body, dot + 1, Len(body)))
    IN  Tenths(IF neg THEN 0 - tenths ELSE tenths)

(* C13: the width of the memory-utilization bar equals utilizationPct when *)
(* that lies in [0,100], is 100 when it is above and 0 when it is below,   *)
(* so it always lies in [0,100]; the label next to the bar is the raw      *)
(* value followed by '%' (143.7 gives width 100 and label '143.7%').       *)
C13_UtilizationBarClamp ==
    DetailShown =>
        LET u == ShownRecord.utilization_pct
            w == detailContent[1].utilWidth
            label == detailContent[1].utilLabel
        IN  /\ RatLeq(Rat(0, 1), w) /\ RatLeq(w, Rat(100, 1))
            /\ (RatLeq(Rat(0, 1), u) /\ RatLeq(u, Rat(100, 1))) => RatEq(w, u)
            /\ ~RatLeq(u, Rat(100, 1)) => RatEq(w, Rat(100, 1))
            /\ ~RatLeq(Rat(0, 1), u) => RatEq(w, Rat(0, 1))
            /\ label[Len(label)] = "%"
            /\ RatEq(parseDecimal(SubSeq(label, 1, Len(label) - 1)), u)
            /\ RatEq(u, Tenths(1437)) =>
                  label = <<"1", "4", "3", ".", "7", "%">>

\* the width of the fill a sub-score is claimed to have
ClaimedFill(v) ==
    IF RatLeq(v, Rat(0, 1)) THEN Rat(0, 1)
    ELSE IF RatLeq(Rat(30, 1), v) THEN Rat(100, 1)
    ELSE Rat(v.n * 100, v.d * 30)

\* the sub-scores of a record, in the order of the bars
SubScores(m) == <<m.score_memory, m.score_speed, m.score_quality, m.score_context>>

(* C18: each of the four sub-score bars (memory, speed, quality, context)  *)
(* has a fill of 0 for a value <= 0, of 100 for a value >= 30 and of       *)
(* value * 100 / 30 in between, so the fill always lies in [0,100].        *)
C18_SubScoreBar ==
    DetailShown =>
        \A k \in 1..4 :
            LET w == detailContent[1].bars[k].width IN
            /\ RatEq(w, ClaimedFill(SubScores(ShownRecord)[k]))
            /\ RatLeq(Rat(0, 1), w) /\ RatLeq(w, Rat(100, 1))

\* a detail is shown whose memory sub-score is above 30, whose speed
\* sub-score is below 0 and whose quality sub-score lies in between
C18_Witness ==
    /\ DetailShown
    /\ ~RatLeq(ShownRecord.score_memory, Rat(30, 1))
    /\ ~RatLeq(Rat(0, 1), ShownRecord.score_speed)
    /\ RatEq(detailContent[1].bars[1].width, Rat(100, 1))
    /\ RatEq(detailContent[1].bars[2].width, Rat(0, 1))
    /\ RatEq(detailContent[1].bars[3].width, Rat(50, 1))

-----------------------------------------------------------------------------
\* the loaded record a rendered row of variant A was written from
RowRecord(row) == CHOOSE m \in Range(allModels) : m.name = row.dataName

\* every text field of a row of variant A is the escaped field of its record
RowEscaped(row) ==
    LET m == RowRecord(row) IN
    /\ row.dataName = escapeHtml(m.name)
    /\ row.title = escapeHtml(splitPop(m.name))
    /\ row.provider = escapeHtml(m.provider)
    /\ row.params = escapeHtml(m.params)
    /\ row.best_quant = escapeHtml(m.best_quant)
    /\ row.run_mode = escapeHtml(m.run_mode)

\* every text field of a detail is the escaped field of the record m
DetailEscaped(d, m) ==
    /\ d.title = escapeHtml(splitPop(m.name))
    /\ d.name = escapeHtml(m.name)
    /\ d.provider = escapeHtml(m.provider)
    /\ d.best_quant = escapeHtml(m.best_quant)
    /\ d.run_mode = escapeHtml(m.run_mode)
    /\ d.use_case = escapeHtml(m.use_case)
    /\ d.notes = [k \in 1..Len(m.notes) |-> escapeHtml(m.notes[k])]

\* every text field of a row of variant B is the escaped field of the record f
FitRowEscaped(row, f) ==
    /\ row.name = escapeHtml(f.name)
    /\ row.quant = escapeHtml(f.best_quant)
    /\ row.run_mode = escapeHtml(f.run_mode)
    /\ row.use_case = escapeHtml(f.use_case)

(* C14: every externally supplied text field of a record that is inserted  *)
(* into the rendered markup - the table rows and their data-name attribute *)
(* in both table variants, and the detail panel - is inserted as the       *)
(* escaping function returns it (name, provider, params, quantization, run *)
(* mode, use case, notes; fit level and category are enumeration values    *)
(* here and hold no markup characters).                                    *)
C14_TextIsEscaped ==
    /\ (variant = "A" /\ tbody.kind = "rows") =>
          \A i \in 1..Len(tbody.rows) : RowEscaped(tbody.rows[i])
    /\ (variant = "A" /\ detailContent # <<>>) =>
          \E k \in 1..Len(Catalogue) :
              /\ detailContent[1] = detailOf(Catalogue[k])
              /\ DetailEscaped(detailContent[1], Catalogue[k])
    /\ (variant = "B" /\ tbody.kind = "rows") =>
          \A i \in 1..Len(tbody.rows) :
              \E f \in Range(allFits) :
                  tbody.rows[i] = fitRow(f) /\ FitRowEscaped(tbody.rows[i], f)

-----------------------------------------------------------------------------
\* a get_model_fits request of variant A resolves successfully in this
\* step and the record set becomes its response
FetchReplacesRecords ==
    \E res \in FitsResponses :
        /\ res.ok /\ allModels' = res.models
        /\ (InitModels(res) \/ RefreshModels(res))

\* the same for the record set of variant B
FetchReplacesFits ==
    \E res \in FitsResponsesB : res.ok /\ LoadModelsB(res)

(* C15: the stored record set (its elements, their order, their fields)    *)
(* changes only in a step in which a get_model_fits request resolves       *)
(* successfully, and then it becomes the response; no search input, filter *)
(* change, sort-header click, row click, close, Escape or render changes   *)
(* it.                                                                     *)
C15_RecordsChangeOnlyByRefresh ==
    /\ [][allModels' # allModels => FetchReplacesRecords]_vars
    /\ [][allFits' # allFits => FetchReplacesFits]_vars

\* after a sort-header click the rows show b/y before a/x while the stored
\* record set still lists a/x before b/y
C15_Witness ==
    /\ variant = "A" /\ allModels = <<R1, R2>>
    /\ thSorted = <<[key |-> "name", dir |-> "desc"]>>
    /\ tbody.kind = "rows" /\ RowNames = <<R2.name, R1.name>>

-----------------------------------------------------------------------------
(* Overlapping refreshes: the same page with up to MaxOverlap refresh      *)
(* handlers running at once, the filter controls left at their defaults.   *)

MaxOverlap == 2

NextOverlap ==
    \/ \E res \in InfoResponses : InitSystemInfo(res)
    \/ \E res \in FitsResponses : InitModels(res)
    \/ RefreshClickWithin(MaxOverlap)
    \/ \E res \in InfoResponses : RefreshSystemInfo(res)
    \/ \E res \in FitsResponses : RefreshModels(res)
    \/ \E key \in SortKeys : SortClick(key)
    \/ \E i \in 1..MaxRecords : RowClick(i)

SpecOverlap == InitDetail /\ [][NextOverlap]_vars

\* requests of refresh handlers that have not settled
Outstanding == inflightSys + inflightModels

\* a sort-header click or a row click
UserStep ==
    \/ \E key \in SortKeys : SortClick(key)
    \/ \E i \in 1..MaxRecords : RowClick(i)

\* the names of the loaded records that pass the filters, in sort order
ExpectedRowNames(models, f, key, asc) ==
    LET shown == sortModels(getFilteredModels(models, f), key, asc)
    IN  [i \in 1..Len(shown) |-> shown[i].name]

(* C16: with refreshes overlapping, every get_model_fits request that      *)
(* resolves successfully makes the record set its response, in whatever    *)
(* order the requests resolve, and nothing else changes the record set, so *)
(* that after the last request has settled the record set is the response  *)
(* that resolved successfully last; the listeners stay installed while     *)
(* requests are outstanding, and a sort-header or row click handled then   *)
(* leaves the record set alone and shows rows of the loaded record set.    *)
C16_LastResolvedWins ==
    /\ [][\A res \in FitsResponses :
             (res.ok /\ allModels' # res.models) => ~RefreshModels(res)]_vars
    /\ [][allModels' # allModels => FetchReplacesRecords]_vars
    /\ [](Outstanding > 0 => listeners)
    /\ [][(Outstanding > 0 /\ UserStep) =>
             /\ allModels' = allModels
             /\ tbody'.kind = "rows"
             /\ [i \in 1..Len(tbody'.rows) |-> tbody'.rows[i].dataName]
                  = ExpectedRowNames(allModels, ControlsNow, sortKey', sortAsc')]_vars

\* two get_model_fits requests are outstanding at once, records are loaded
\* and the table is sorted by a clicked column
C16_Witness ==
    /\ variant = "A" /\ inflightModels = 2
    /\ allModels # <<>> /\ thSorted # <<>>

-----------------------------------------------------------------------------
\* the output the render pipeline gives for the records and the view state
\* as they are now: rows and count line from the filtered, sorted records,
\* the panel visible iff the selection resolves, showing the resolved record
ProjectedOutput ==
    [tbody |-> renderNow(selectedModel).tbody,
     modelCount |-> renderNow(selectedModel).modelCount,
     panelVisible |-> (Resolved # <<>>),
     detail |-> IF Resolved # <<>> THEN <<detailOf(Resolved[1])>> ELSE <<>>]

\* the output the page shows now (the detail content counts while the panel
\* is visible)
ShownOutput ==
    [tbody |-> tbody,
     modelCount |-> modelCount,
     panelVisible |-> panel.visible,
     detail |-> IF panel.visible THEN detailContent ELSE <<>>]

(* C17: the rendered output (rows and their order, highlighted row, count  *)
(* line, visibility and contents of the detail panel) is the projection of *)
(* the record set and the view state (sort key, direction, filters,        *)
(* selected name) alone, whatever the events that led to them; stated for  *)
(* the states in which the table has been rendered.                        *)
C17_RenderDeterminism ==
    (variant = "A" /\ tbody.kind = "rows") => ShownOutput = ProjectedOutput

\* two histories end in the same record set and view state with different
\* detail contents: the detail of R1 stayed through a refresh that
\* replaced R1 by R3, where a click on R3's row shows the detail of R3
C17_StaleDetailState ==
    /\ variant = "A" /\ allModels = <<R3>> /\ selectedModel = <<R3.name>>
    /\ panel.visible /\ detailContent = <<detailOf(R1)>>

C17_FreshDetailState ==
    /\ variant = "A" /\ allModels = <<R3>> /\ selectedModel = <<R3.name>>
    /\ panel.visible /\ detailContent = <<detailOf(R3)>>

-----------------------------------------------------------------------------
\* no rendered row is highlighted as selected
NoRowHighlighted(body) == \A i \in 1..Len(body.rows) : ~body.rows[i].selected

(* C19: from any state with a selection, the Escape key and the close      *)
(* control lead to the same state - selection unset, panel marked hidden   *)
(* and not marked visible, table rendered with no highlighted row - and in *)
(* every reachable state the panel is marked visible iff a selection is    *)
(* set.                                                                    *)
C19_CloseActionsEquivalent ==
    (variant = "A" /\ listeners) =>
        /\ selectedModel # <<>> =>
              /\ keydownEscape(View) = detailClose(View)
              /\ \A v \in {keydownEscape(View), detailClose(View)} :
                    /\ v.selectedModel = <<>>
                    /\ v.panel.hidden /\ ~v.panel.visible
                    /\ v.tbody.kind = "rows" /\ NoRowHighlighted(v.tbody)
        /\ panel.visible <=> selectedModel # <<>>

-----------------------------------------------------------------------------
\* the rows highlighted as selected
HighlightedRows == {i \in 1..Len(tbody.rows) : tbody.rows[i].selected}

\* at most one row is highlighted, and a row is highlighted iff its record's
\* full name is the selected name
HighlightMatchesSelection ==
    (variant = "A" /\ tbody.kind = "rows") =>
        /\ Cardinality(HighlightedRows) <= 1
        /\ \A i \in 1..Len(tbody.rows) :
              /\ tbody.rows[i].selected <=> selectedModel = <<tbody.rows[i].dataName>>
              /\ PassesFilters(RowRecord(tbody.rows[i]))
        /\ \A m \in Range(allModels) :
              (selectedModel = <<m.name>> /\ PassesFilters(m)) =>
                  \E i \in HighlightedRows : tbody.rows[i].dataName = m.name

(* C20: with names unique in the record set, at most one rendered row is   *)
(* highlighted, and a row is highlighted iff its record's full name is the *)
(* selected name (its record passing the filters, as every rendered row's  *)
(* does); a click on the row of record r makes r's full name the selected  *)
(* name, whatever was selected before.                                     *)
C20_HighlightTracksSelection ==
    /\ []HighlightMatchesSelection
    /\ [][\A i \in 1..MaxRecords :
             RowClick(i) => selectedModel' = <<tbody.rows[i].dataName>>]_vars

====
